---- MODULE Spec2Model ----
(***************************************************************************)
(* Manifest-based file synchronisation of the launcher (src/main.py):      *)
(* calculate_fast_hash, Downloader.load_manifest, Downloader.check_files,  *)
(* Downloader.add_download, Downloader.process_queue and the button        *)
(* handler start_file_check that drives them.                              *)
(*                                                                         *)
(* Sizes are counted in blocks: a file's content is a sequence of blocks,  *)
(* os.path.getsize is its length.  The sampling length of the hash and the *)
(* chunk lengths of the copy loops are scaled to one block each, so that   *)
(* files of two or three blocks already take several chunks and already    *)
(* have an unsampled middle.                                               *)
(*                                                                         *)
(* Spec is one session of the launcher.  SpecPlan runs check_files twice,  *)
(* SpecIO is a session over files that cannot be read and records whose    *)
(* hash is "error", SpecCancel is a session that the close button may      *)
(* stop, SpecHash applies the two calculate_fast_hash (main.py and         *)
(* files_report.py) to one file, and SpecReport is                         *)
(* files_report.generate_directory_report over one directory.              *)
(* SpecLookup takes one record through add_download and the lookup of its  *)
(* hash, SpecTwin runs two invocations of start_file_check on one file,    *)
(* and SpecLive is a session under weak fairness of its steps.             *)
(***************************************************************************)
EXTENDS Integers, Sequences, FiniteSets, TLC

\* ------------------------------------------------------------ bounds
MaxManifest == 2      \* records in the manifest file
MaxLen == 2           \* blocks in a source file

\* ------------------------------------------------- program constants
SAMPLE == 1           \* f.read(65536), one block
chunk_size == 1       \* the local copy's chunk, in blocks
HTTP_CHUNK == 1       \* iter_chunked(1024), in blocks

Paths == {"a.dat", "b.dat"}
\* Modification times: 0 is the time the source files were last modified
\* (and scanned), 1 is any later time.
Times == {0, 1}

Min(a, b) == IF a < b THEN a ELSE b

\* ------------------------------------------------------- file system
File(c, t) == [exists |-> TRUE, readable |-> TRUE, content |-> c, mtime |-> t]
Absent == [exists |-> FALSE, readable |-> FALSE, content |-> <<>>, mtime |-> 0]

\* A file that exists and that open(filepath, 'rb') fails on.
Locked(f) == [f EXCEPT !.readable = FALSE]

\* The content of the source file of n blocks.
Data(n) == [i \in 1..n |-> i]

\* dest_path.unlink()
Unlink(fs, p) == [fs EXCEPT ![p] = Absent]

\* if dest_path.exists(): dest_path.unlink()
RemoveIfExists(fs, p) == IF fs[p].exists THEN Unlink(fs, p) ELSE fs

\* open(destination, 'wb'): the file is created or truncated at once.
OpenForWrite(fs, p, t) == [fs EXCEPT ![p] = File(<<>>, t)]

\* dst.write(chunk)
WriteChunk(fs, p, chunk, t) ==
    [fs EXCEPT ![p] = File(fs[p].content \o chunk, t)]

\* open(filepath, 'wb') where 'rb' is meant
OpenTruncating(fs, p) ==
    IF fs[p].exists THEN [fs EXCEPT ![p] = File(<<>>, fs[p].mtime)] ELSE fs

\* filepath.exists(), then open(filepath, 'rb') and os.stat: the folder
\* after the file at p was looked at.
OpenForRead(fs, p) == fs

\* src.read(chunk_size) at offset pos of content c
ReadChunk(c, pos, n) == SubSeq(c, pos + 1, Min(pos + n, Len(c)))

\* ------------------------------------------------------- fingerprint
\* The digest is modelled by the data fed to the hasher: the sampled
\* content (head, then tail), the size and the modification time.
ErrorHash == [kind |-> "error", sample |-> <<>>, size |-> 0, mtime |-> 0]
None == [kind |-> "none", sample |-> <<>>, size |-> 0, mtime |-> 0]

\* The first block alone, whatever the size.
head_only_hash(f) ==
    IF ~f.exists \/ ~f.readable THEN ErrorHash
    ELSE [kind |-> "digest",
          sample |-> SubSeq(f.content, 1, Min(SAMPLE, Len(f.content))),
          size |-> Len(f.content), mtime |-> f.mtime]

calculate_fast_hash(f) ==
    IF ~f.exists \/ ~f.readable THEN ErrorHash
    ELSE LET n == Len(f.content)
             head == SubSeq(f.content, 1, Min(SAMPLE, n))
             tail == IF n > 2 * SAMPLE
                     THEN SubSeq(f.content, n - SAMPLE + 1, n)
                     ELSE <<>>
         IN  [kind |-> "digest", sample |-> head \o tail,
              size |-> n, mtime |-> f.mtime]

\* ---------------------------------------------------------- manifest
\* A record as the scanning tool writes it for file f at path p.
Scanned(p, f) ==
    [path |-> p, hash |-> calculate_fast_hash(f), size |-> Len(f.content),
     hasSize |-> TRUE, hasKeys |-> TRUE]

\* The files the manifest may have been scanned from.
Origins == {File(Data(1), 0), File(Data(2), 0)}

\* Records that a validating parser would refuse, or that carry no size.
Deviant(p) ==
    LET r == Scanned(p, File(Data(1), 0))
    IN  {[r EXCEPT !.hasSize = FALSE, !.size = 0],
         [r EXCEPT !.size = -1],
         [r EXCEPT !.hasKeys = FALSE]}

Records == UNION {{Scanned(p, f) : f \in Origins} \cup Deviant(p) : p \in Paths}

ManifestFiles ==
    {[kind |-> "unreadable", files |-> <<>>], [kind |-> "nofiles", files |-> <<>>]}
    \cup {[kind |-> "ok", files |-> fs] :
            fs \in UNION {[1..n -> Records] : n \in 1..MaxManifest}}

\* max(file_info.get("size", 0), 0)
SizeOrZero(r) == IF r.hasSize /\ r.size > 0 THEN r.size ELSE 0

\* file_info.get("size", 0)
SizeOf(r) == IF r.hasSize THEN r.size ELSE 0

RECURSIVE SumSizes(_)
SumSizes(q) == IF q = <<>> THEN 0 ELSE Head(q)[3] + SumSizes(Tail(q))

VARIABLES
    test_mode,                \* Downloader.test_mode
    manifest_file,            \* the document at config.game.files_manifest
    src,                      \* the source folder, or the server's files
    old,                      \* the download folder before the session
    dst,                      \* the download folder
    pc,                       \* where start_file_check stands
    manifest,                 \* Downloader.manifest
    total_files, processed_files,
    files_to_download, files_requiring_download, size_requiring_download,
    download_queue, current_download,
    total_size_bytes, downloaded_bytes,
    file_progress, total_progress,
    status_text, total_status_text,
    total_size, downloaded,   \* locals of process_queue
    prev_dest,                \* the destination file as the current task found it
    results,                  \* how each popped task left the loop body
    last_plan,                \* what an earlier call of check_files returned
    hashed,                   \* a file and what the two calculate_fast_hash made of it
    report,                   \* files_report.generate_directory_report
    lookup,                   \* one record through add_download and the hash lookup
    twin                      \* two invocations of start_file_check on one file

vars == <<test_mode, manifest_file, src, old, dst, pc, manifest, total_files,
          processed_files, files_to_download, files_requiring_download,
          size_requiring_download, download_queue, current_download,
          total_size_bytes, downloaded_bytes, file_progress, total_progress,
          status_text, total_status_text, total_size, downloaded, prev_dest,
          results, last_plan, hashed, report, lookup, twin>>

\* What no step of a session changes.
env == <<test_mode, manifest_file, src, old, last_plan, hashed, report,
         lookup, twin>>
check_state == <<manifest, total_files, processed_files, files_to_download,
                 files_requiring_download, size_requiring_download>>
queue_state == <<download_queue, current_download, total_size_bytes,
                 downloaded_bytes, file_progress, total_progress, total_size,
                 downloaded, prev_dest, results>>

UsedPaths(m) == {m.files[i].path : i \in 1..Len(m.files)}

NoPlan == [runs |-> 0, plan |-> <<>>]
NoHash == [pc |-> "none"]
NoReport == [pc |-> "none"]
NoLookup == [pc |-> "none"]
NoTwin == [pc |-> "none"]

\* Downloader.__init__ and the page as main builds it.
SessionIdle ==
    /\ dst = old
    /\ pc = "idle"
    /\ manifest = [loaded |-> FALSE, files |-> <<>>]
    /\ total_files = 0
    /\ processed_files = 0
    /\ files_to_download = <<>>
    /\ files_requiring_download = 0
    /\ size_requiring_download = 0
    /\ download_queue = <<>>
    /\ current_download = <<>>
    /\ total_size_bytes = 0
    /\ downloaded_bytes = 0
    /\ file_progress = <<0, 1>>
    /\ total_progress = <<0, 1>>
    /\ status_text = ""
    /\ total_status_text = ""
    /\ total_size = 0
    /\ downloaded = 0
    /\ prev_dest = Absent
    /\ results = <<>>

\* A session over the manifests ms and the download folders with files of olds.
\* test_mode is the switch between the local copy and the HTTP download in
\* add_download and process_queue; the constructor sets it, and both
\* settings are modelled.
Start(ms, olds) ==
    /\ test_mode \in BOOLEAN
    /\ manifest_file \in ms
    /\ src \in [Paths -> {Absent, File(Data(1), 0), File(Data(MaxLen), 0)}]
    /\ old \in [Paths -> olds]
    \* Paths the manifest does not name play no part; the two paths are
    \* interchangeable, so the first record names "a.dat".
    /\ \A p \in Paths \ UsedPaths(manifest_file) :
          src[p] = Absent /\ old[p] = Absent
    /\ manifest_file.files # <<>> => manifest_file.files[1].path = "a.dat"
    /\ SessionIdle
    /\ last_plan = NoPlan
    /\ hashed = NoHash
    /\ report = NoReport
    /\ lookup = NoLookup
    /\ twin = NoTwin

Init == Start(ManifestFiles, {Absent, File(Data(1), 0)})


\* ------------------------------------------------------------ planner
\* load_manifest: the parsed document, or None when it cannot be read.
load_manifest(mf) ==
    IF mf.kind = "unreadable"
    THEN [loaded |-> FALSE, files |-> <<>>]
    ELSE [loaded |-> TRUE, files |-> mf.files]

\* not self.manifest or not self.manifest.get("files")
ManifestUnusable(m) == ~m.loaded \/ m.files = <<>>

\* The branch of check_files that appends file_info to files_to_download.
OnlyMissing(r, fs) == ~fs[r.path].exists
NeedsDownload(r, fs) ==
    \/ ~fs[r.path].exists
    \/ calculate_fast_hash(fs[r.path]) # r.hash

\* status_text after the check of one record
CheckStatus(r, fs) ==
    IF ~fs[r.path].exists THEN "missing"
    ELSE IF calculate_fast_hash(fs[r.path]) # r.hash THEN "check_failed"
    ELSE "check_ok"

\* start_file_check up to the first await inside check_files.
StartFileCheck ==
    /\ pc = "idle"
    /\ manifest' = load_manifest(manifest_file)
    /\ total_files' = Len(load_manifest(manifest_file).files)
    /\ processed_files' = 0
    /\ files_to_download' = <<>>
    /\ files_requiring_download' = 0
    /\ size_requiring_download' = 0
    /\ IF ManifestUnusable(load_manifest(manifest_file))
       THEN \* check_files returns [], the handler reports "all up to date"
            /\ total_status_text' = "up_to_date"
            /\ status_text' = "ready"
            /\ pc' = "done"
       ELSE /\ pc' = "checking"
            /\ UNCHANGED <<status_text, total_status_text>>
    /\ UNCHANGED <<env, dst, queue_state>>

\* One iteration of the loop of check_files, up to its await.
CheckFile ==
    /\ pc = "checking"
    /\ processed_files < total_files
    /\ LET r == manifest.files[processed_files + 1]
       IN  IF ~r.hasKeys
           THEN \* file_info["path"] / file_info["hash"] raises KeyError,
                \* which nothing catches: the handler ends here.
                /\ pc' = "crashed"
                /\ dst' = dst
                /\ UNCHANGED <<processed_files, files_to_download,
                               files_requiring_download, size_requiring_download,
                               status_text, total_status_text>>
           ELSE /\ processed_files' = processed_files + 1
                /\ total_status_text' = "checking"
                /\ status_text' = CheckStatus(r, dst)
                /\ IF NeedsDownload(r, dst)
                   THEN /\ files_to_download' = Append(files_to_download, r)
                        /\ files_requiring_download' = files_requiring_download + 1
                        /\ size_requiring_download' = size_requiring_download + SizeOf(r)
                   ELSE UNCHANGED <<files_to_download, files_requiring_download,
                                    size_requiring_download>>
                /\ dst' = OpenForRead(dst, r.path)
                /\ pc' = "checking"
    /\ UNCHANGED <<env, manifest, total_files, queue_state>>

\* add_download: the queue entry of one record.
add_download(r) == <<r.path, r.path, SizeOf(r)>>

\* check_files returns; start_file_check either reports that nothing is to
\* be done or queues every planned record and enters process_queue.
FinishCheck ==
    /\ pc = "checking"
    /\ processed_files = total_files
    /\ IF files_to_download = <<>>
       THEN /\ total_status_text' = "up_to_date"
            /\ status_text' = "ready"
            /\ pc' = "done"
            /\ UNCHANGED <<download_queue, total_size_bytes, downloaded_bytes>>
       ELSE /\ total_status_text' = "found"
            /\ status_text' = "preparing"
            /\ download_queue' =
                 [i \in 1..Len(files_to_download) |-> add_download(files_to_download[i])]
            /\ total_size_bytes' =
                 SumSizes([i \in 1..Len(files_to_download) |->
                              add_download(files_to_download[i])])
            /\ downloaded_bytes' = 0
            /\ pc' = "queue"
    /\ UNCHANGED <<env, dst, check_state, current_download, file_progress,
                   total_progress, total_size, downloaded, prev_dest, results>>


\* ------------------------------------------------------ process_queue
\* The entry at the other end of the queue.
LastTask == download_queue[Len(download_queue)]
\* self.download_queue[0]
Task == Head(download_queue)
Source == current_download[1]
Dest == current_download[2]

\* The loop body is left (by continue, or by falling off its end) and the
\* while condition is tested again.
LeaveLoop == pc' = "done"
NextIteration == pc' = "queue"

\* A task ends: its outcome is noted, the status line set.
EndTaskBreak(outcome, text) ==
    /\ results' = Append(results, outcome)
    /\ status_text' = text
    /\ LeaveLoop
EndTask(outcome, text) ==
    /\ results' = Append(results, outcome)
    /\ status_text' = text
    /\ NextIteration

\* The pop with the entry put back at the end of the queue.
PopAndRequeue ==
    /\ pc = "queue"
    /\ download_queue # <<>>
    /\ current_download' = Task
    /\ download_queue' = Append(Tail(download_queue), Task)
    /\ prev_dest' = dst[Task[2]]

\* download_queue.pop(0) and current_download
Pop ==
    /\ pc = "queue"
    /\ download_queue # <<>>
    /\ current_download' = Task
    /\ download_queue' = Tail(download_queue)
    /\ prev_dest' = dst[Task[2]]

\* dest_path.parent.mkdir raises: the outer handler reports and continues.
MkdirFails ==
    /\ Pop
    /\ EndTask("mkdir_error", "critical")
    /\ UNCHANGED <<env, dst, check_state, total_size_bytes, downloaded_bytes,
                   file_progress, total_progress, total_status_text,
                   total_size, downloaded>>

\* if not source_path.exists(): ... continue
SourceNotFound ==
    /\ Pop
    /\ test_mode
    /\ ~src[Task[1]].exists
    /\ total_status_text' = "downloading"
    /\ EndTask("not_found", "not_found")
    /\ UNCHANGED <<env, dst, check_state, total_size_bytes, downloaded_bytes,
                   file_progress, total_progress, total_size, downloaded>>

\* The handler of copy_error.
CopyErrorHandler(fs, d) ==
    /\ dst' = RemoveIfExists(fs, d)
    /\ EndTask("copy_error", "copy_error")

\* open(source) or open(destination, 'wb') raises.
OpenFails ==
    /\ Pop
    /\ test_mode
    /\ src[Task[1]].exists
    /\ total_status_text' = "downloading"
    /\ total_size' = Len(src[Task[1]].content)
    /\ downloaded' = 0
    /\ CopyErrorHandler(dst, Task[2])
    /\ UNCHANGED <<env, check_state, total_size_bytes, downloaded_bytes,
                   file_progress, total_progress>>

\* Both files are opened; the destination is truncated.
StartCopy ==
    /\ Pop
    /\ test_mode
    /\ src[Task[1]].exists
    /\ total_status_text' = "downloading"
    /\ total_size' = Len(src[Task[1]].content)
    /\ downloaded' = 0
    /\ \E t \in Times : dst' = OpenForWrite(dst, Task[2], t)
    /\ pc' = "copying"
    /\ UNCHANGED <<env, check_state, total_size_bytes, downloaded_bytes,
                   file_progress, total_progress, status_text, results>>

\* if response.status != 200: ... continue
HttpError ==
    /\ Pop
    /\ ~test_mode
    /\ ~src[Task[1]].exists
    /\ total_status_text' = "downloading"
    /\ EndTask("http_error", "http_error")
    /\ UNCHANGED <<env, dst, check_state, total_size_bytes, downloaded_bytes,
                   file_progress, total_progress, total_size, downloaded>>

\* Status 200: content-length is the body's length, or missing (0).
StartStream ==
    /\ Pop
    /\ ~test_mode
    /\ src[Task[1]].exists
    /\ total_status_text' = "downloading"
    /\ \E cl \in {Len(src[Task[1]].content), 0} : total_size' = cl
    /\ downloaded' = 0
    /\ \E t \in Times : dst' = OpenForWrite(dst, Task[2], t)
    /\ pc' = "streaming"
    /\ UNCHANGED <<env, check_state, total_size_bytes, downloaded_bytes,
                   file_progress, total_progress, status_text, results>>

PopTask ==
    \/ MkdirFails
    \/ SourceNotFound
    \/ OpenFails
    \/ StartCopy
    \/ HttpError
    \/ StartStream

\* One turn of the local copy loop, up to its await.
CopyChunk ==
    /\ pc = "copying"
    /\ LET chunk == ReadChunk(src[Source].content, downloaded, chunk_size)
       IN  IF chunk = <<>>
           THEN \* break: both files are closed, verification follows
                /\ pc' = "verify"
                /\ UNCHANGED <<dst, downloaded, downloaded_bytes, file_progress,
                               total_progress, status_text, results>>
           ELSE \/ \* src.read or dst.write raises
                   /\ CopyErrorHandler(dst, Dest)
                   /\ UNCHANGED <<downloaded, downloaded_bytes, file_progress,
                                  total_progress>>
                \/ \E t \in Times :
                     /\ downloaded' = downloaded + Len(chunk)
                     /\ downloaded_bytes' = downloaded_bytes + Len(chunk)
                     /\ file_progress' = <<(downloaded + Len(chunk)) * 100, total_size>>
                     /\ IF total_size_bytes = 0
                        THEN \* ZeroDivisionError, caught as copy_error
                             /\ CopyErrorHandler(WriteChunk(dst, Dest, chunk, t), Dest)
                             /\ UNCHANGED total_progress
                        ELSE /\ dst' = WriteChunk(dst, Dest, chunk, t)
                             /\ total_progress' =
                                  <<(downloaded_bytes + Len(chunk)) * 100, total_size_bytes>>
                             /\ status_text' = "copying"
                             /\ pc' = "copying"
                             /\ UNCHANGED results
    /\ UNCHANGED <<env, check_state, download_queue, current_download,
                   total_size_bytes, total_status_text, total_size, prev_dest>>

\* The outer handler: "critical error", continue.  Nothing is removed.
OuterHandler == EndTask("stream_error", "critical")

\* One chunk of the HTTP body.
StreamChunk ==
    /\ pc = "streaming"
    /\ LET data == ReadChunk(src[Source].content, downloaded, HTTP_CHUNK)
       IN  IF data = <<>>
           THEN /\ pc' = "verify"
                /\ UNCHANGED <<dst, downloaded, downloaded_bytes, file_progress,
                               total_progress, status_text, results>>
           ELSE \/ \* the connection breaks
                   /\ OuterHandler
                   /\ UNCHANGED <<dst, downloaded, downloaded_bytes,
                                  file_progress, total_progress>>
                \/ \E t \in Times :
                     /\ dst' = WriteChunk(dst, Dest, data, t)
                     /\ downloaded' = downloaded + Len(data)
                     /\ downloaded_bytes' = downloaded_bytes + Len(data)
                     /\ IF total_size = 0
                        THEN \* ZeroDivisionError in file_progress
                             /\ OuterHandler
                             /\ UNCHANGED <<file_progress, total_progress>>
                        ELSE /\ file_progress' =
                                  <<(downloaded + Len(data)) * 100, total_size>>
                             /\ IF total_size_bytes = 0
                                THEN \* ZeroDivisionError in total_progress
                                     /\ OuterHandler
                                     /\ UNCHANGED total_progress
                                ELSE /\ total_progress' =
                                          <<(downloaded_bytes + Len(data)) * 100,
                                            total_size_bytes>>
                                     /\ status_text' = "copying"
                                     /\ pc' = "streaming"
                                     /\ UNCHANGED results
    /\ UNCHANGED <<env, check_state, download_queue, current_download,
                   total_size_bytes, total_status_text, total_size, prev_dest>>

\* next((f["hash"] for f in manifest["files"] if f["path"] == relative), None)
RECURSIVE FirstHash(_, _)
FirstHash(fsq, p) ==
    IF fsq = <<>> THEN None
    ELSE IF Head(fsq).path = p THEN Head(fsq).hash
    ELSE FirstHash(Tail(fsq), p)

expected_hash(m, p) == FirstHash(m.files, p)

\* The hash check after the transfer.  The file just written is read back;
\* when that read fails, calculate_fast_hash returns "error" like for any
\* other file.
Verify ==
    /\ pc = "verify"
    /\ \E f \in {dst[Dest], Locked(dst[Dest])} :
          IF calculate_fast_hash(f) # expected_hash(manifest, Dest)
          THEN /\ dst' = RemoveIfExists(dst, Dest)
               /\ EndTask(IF f.readable THEN "hash_error" ELSE "unreadable",
                          "hash_error")
          ELSE /\ dst' = dst
               /\ results' = Append(results, IF f.readable THEN "ok" ELSE "ok_unread")
               /\ NextIteration
               /\ UNCHANGED status_text
    /\ UNCHANGED <<env, check_state, download_queue, current_download,
                   total_size_bytes, downloaded_bytes, file_progress,
                   total_progress, total_status_text, total_size, downloaded,
                   prev_dest>>

\* The queue is empty: the final status.
Finish ==
    /\ pc = "queue"
    /\ download_queue = <<>>
    /\ current_download' = <<>>
    /\ status_text' = "all_downloaded"
    /\ total_status_text' = "finished"
    /\ pc' = "done"
    /\ UNCHANGED <<env, dst, check_state, download_queue, total_size_bytes,
                   downloaded_bytes, file_progress, total_progress, total_size,
                   downloaded, prev_dest, results>>

Next ==
    \/ StartFileCheck
    \/ CheckFile
    \/ FinishCheck
    \/ PopTask
    \/ CopyChunk
    \/ StreamChunk
    \/ Verify
    \/ Finish

Spec == Init /\ [][Next]_vars


\* ==================================================================
\* Properties
\* ==================================================================
Last(s) == s[Len(s)]

\* The outcomes with which a task has failed, and those of a task that had
\* opened its destination for writing.
Failures == {"mkdir_error", "not_found", "copy_error", "http_error",
             "stream_error", "hash_error", "unreadable"}
Wrote == {"ok", "ok_unread", "hash_error", "unreadable", "copy_error",
          "stream_error"}

\* The record for which the k-th task was queued, and its path.
TaskRecord(k) == files_to_download[k]
TaskPath(k) == files_to_download[k].path

\* A manifest as the specification admits it: every record has its keys
\* and no size is negative.
ValidManifest ==
    \A i \in 1..Len(manifest_file.files) :
        /\ manifest_file.files[i].hasKeys
        /\ SizeOf(manifest_file.files[i]) >= 0

\* The launcher as it is configured: test_mode is set, files are copied
\* from the source folder.
LocalCopy == ValidManifest /\ test_mode

SessionEnded == pc = "done" /\ status_text = "all_downloaded"

\* C1: when the session has ended and reports success, a file that a task
\* wrote and left at its destination has the fingerprint of the manifest
\* record the task was queued for.
C1_CommittedOnlyIfVerified ==
    (ValidManifest /\ SessionEnded) =>
        \A k \in 1..Len(results) :
            ( /\ results[k] \in Wrote
              /\ \A j \in (k + 1)..Len(results) : TaskPath(j) # TaskPath(k)
              /\ dst[TaskPath(k)].exists )
            => calculate_fast_hash(dst[TaskPath(k)]) = TaskRecord(k).hash

\* The file at p is neither the file that was there before the session nor
\* the complete source file.
Partial(p) ==
    /\ dst[p].exists
    /\ dst[p] # old[p]
    /\ ~src[p].exists \/ dst[p].content # src[p].content

\* C2: at no moment does a final path hold a partially written file: what
\* is there is the previous file, nothing, or the complete new file.
C2_NoPartialFileAtFinalPath ==
    LocalCopy => \A p \in Paths : ~Partial(p)

\* C3: after a failed task whose destination held a file before, the
\* destination holds that previous file or the complete new file.
C3_FailedFetchKeepsPreviousFile ==
    ( /\ LocalCopy
      /\ pc = "queue"
      /\ results # <<>>
      /\ Last(results) \in Failures
      /\ prev_dest.exists )
    => \/ dst[Dest] = prev_dest
       \/ /\ dst[Dest].exists
          /\ src[Source].exists
          /\ dst[Dest].content = src[Source].content

\* C4: a transfer that ran to its end, of a source file whose fingerprint is
\* the record's fingerprint, is committed.
C4_RoundTripCommits ==
    LocalCopy =>
        \A k \in 1..Len(results) :
            ( /\ results[k] \in {"ok", "hash_error"}
              /\ src[TaskPath(k)].exists
              /\ calculate_fast_hash(src[TaskPath(k)]) = TaskRecord(k).hash )
            => results[k] = "ok"

\* What the planner is to decide for record r, given the download folder
\* as the session found it.
C5_Decision(r) ==
    IF ~old[r.path].exists THEN "missing"
    ELSE IF calculate_fast_hash(old[r.path]) # r.hash THEN "check_failed"
    ELSE "check_ok"

\* C5: the plan is, at every moment, the subsequence of the records decided
\* so far that are missing or whose fingerprint differs, in manifest order;
\* the status names the decision just taken; a plan that is carried out
\* has decided every record.
C5_PlanIsFetchSubsequence ==
    LET decided == SubSeq(manifest.files, 1, processed_files)
        Fetch(r) == C5_Decision(r) # "check_ok"
    IN  /\ processed_files <= Len(manifest.files)
        /\ files_to_download = SelectSeq(decided, Fetch)
        /\ (pc = "checking" /\ processed_files > 0)
              => status_text = C5_Decision(manifest.files[processed_files])
        /\ (pc \in {"queue", "copying", "streaming", "verify"} \/ SessionEnded)
              => processed_files = Len(manifest.files)
C5_Witness ==
    /\ pc = "queue"
    /\ total_files = 2
    /\ files_to_download = <<manifest.files[2]>>
    /\ old["a.dat"].exists
    /\ ~old["b.dat"].exists

\* The queue entries of the planned files after the n-th.
Remaining(n) ==
    [i \in 1..(Len(files_to_download) - n) |->
        add_download(files_to_download[n + i])]

\* C6: a failed task is reported and leaves the rest of the queue as it was,
\* and the session ends only when every queued file has had its turn.
C6_FailureDoesNotAbort ==
    /\ pc = "queue" => download_queue = Remaining(Len(results))
    /\ pc \in {"copying", "streaming", "verify"}
          => download_queue = Remaining(Len(results) + 1)
    /\ (pc = "queue" /\ results # <<>> /\ Last(results) \in Failures)
          => status_text \in {"critical", "not_found", "copy_error",
                              "http_error", "hash_error"}
    /\ (pc = "done" /\ files_to_download # <<>>)
          => Len(results) = Len(files_to_download)
C6_Witness ==
    /\ pc = "done"
    /\ Len(results) = 2
    /\ results[1] \in Failures
    /\ results[2] = "ok"
    /\ TaskPath(1) # TaskPath(2)

\* C7: the session reports success only if no file has failed.
C7_SuccessIffNoFailure ==
    (LocalCopy /\ SessionEnded) =>
        \A k \in 1..Len(results) : results[k] \notin Failures

\* C8: a file whose verification fails is fetched again: the step that finds
\* the mismatch puts the task back at the head of the queue.
C8_MismatchIsRetried ==
    [][ ( /\ LocalCopy
          /\ Len(results') = Len(results) + 1
          /\ Last(results') = "hash_error" )
        => ( /\ download_queue' # <<>>
             /\ Len(download_queue') = Len(download_queue) + 1
             /\ Head(download_queue') = current_download ) ]_vars

\* C9: downloaded_bytes never exceeds total_size_bytes, and total_progress
\* never exceeds 100.
C9_BytesWithinTotal ==
    LocalCopy =>
        /\ downloaded_bytes <= total_size_bytes
        /\ total_progress[2] > 0 => total_progress[1] <= 100 * total_progress[2]

\* The manifest has no list of files, or a record without path or hash, or
\* a record of negative size.
Malformed ==
    \/ manifest_file.kind # "ok"
    \/ \E i \in 1..Len(manifest_file.files) :
          \/ ~manifest_file.files[i].hasKeys
          \/ manifest_file.files[i].hasSize /\ manifest_file.files[i].size < 0

\* C10: of a malformed manifest no record is planned and no file fetched.
C10_MalformedManifestRejected ==
    Malformed =>
        /\ processed_files = 0
        /\ files_to_download = <<>>
        /\ download_queue = <<>>
        /\ dst = old

\* C11: when the manifest cannot be loaded, cannot be parsed or lists no
\* files, the state start_file_check leaves behind is the manifest error,
\* not the report that every file is up to date, and no fetch was started.
C11_ManifestFailureIsAnError ==
    (pc = "done" /\ manifest_file.kind # "ok") =>
        /\ total_status_text = "manifest_error"
        /\ total_status_text # "up_to_date"
        /\ results = <<>> /\ current_download = <<>> /\ dst = old

\* ------------------------------------------------- check_files, twice
\* self.files_to_download = [] at the entry of check_files
KeptPlan(plan) == plan
NewPlan(plan) == <<>>

\* check_files has returned plan last_plan'.plan and is entered once more
\* over the same manifest file and the same download folder.
CheckAgain ==
    /\ pc = "checking"
    /\ processed_files = total_files
    /\ last_plan.runs = 0
    /\ ~ManifestUnusable(load_manifest(manifest_file))
    /\ last_plan' = [runs |-> 1, plan |-> files_to_download]
    /\ manifest' = load_manifest(manifest_file)
    /\ total_files' = Len(load_manifest(manifest_file).files)
    /\ processed_files' = 0
    /\ files_to_download' = NewPlan(files_to_download)
    /\ files_requiring_download' = 0
    /\ size_requiring_download' = 0
    /\ UNCHANGED <<test_mode, manifest_file, src, old, hashed, report, lookup,
                   twin, dst, pc,
                   status_text, total_status_text, queue_state>>

NextPlan ==
    \/ StartFileCheck
    \/ CheckFile
    \/ CheckAgain

SpecPlan == Init /\ [][NextPlan]_vars

\* The record is what a scan of the file now at its path writes.
Unchanged(r, fs) == r = Scanned(r.path, fs[r.path])

\* C12: a second run of check_files over an unchanged file system returns
\* the plan of the first run, and no run plans a record whose file is as it
\* was when the manifest was scanned.
C12_PlanIsIdempotent ==
    (pc = "checking" /\ processed_files = total_files) =>
        /\ last_plan.runs = 1 => files_to_download = last_plan.plan
        /\ \A i \in 1..total_files :
              Unchanged(manifest.files[i], dst) =>
                  \A j \in 1..Len(files_to_download) :
                      files_to_download[j] # manifest.files[i]

\* The second run has ended with a plan of one record beside a skipped one.
C12_Witness ==
    /\ pc = "checking" /\ processed_files = total_files
    /\ last_plan.runs = 1
    /\ Len(last_plan.plan) = 1
    /\ \E i \in 1..total_files : Unchanged(manifest.files[i], dst)

\* ------------------------------------- files that cannot be read
\* A record whose hash field is the string "error".
ErrorRecord(p) == [Scanned(p, File(Data(1), 0)) EXCEPT !.hash = ErrorHash]

ManifestFilesIO ==
    {[kind |-> "ok", files |-> fs] :
        fs \in UNION {[1..n -> {Scanned("a.dat", File(Data(1), 0)), ErrorRecord("a.dat"),
                                Scanned("b.dat", File(Data(1), 0)), ErrorRecord("b.dat")}] :
                         n \in 1..MaxManifest}}

InitIO == Start(ManifestFilesIO,
                {Absent, File(Data(1), 0), Locked(File(Data(1), 0))})

SpecIO == InitIO /\ [][Next]_vars

\* C13: a fingerprint that could not be computed never counts as a match:
\* a record whose file exists and cannot be read is planned, and no task is
\* left committed on a read-back that failed.
C13_ErrorNeverMatches ==
    /\ pc = "checking" =>
          \A i \in 1..processed_files :
              LET r == manifest.files[i]
              IN  (dst[r.path].exists /\ ~dst[r.path].readable) =>
                      \E j \in 1..Len(files_to_download) : files_to_download[j] = r
    /\ \A k \in 1..Len(results) : results[k] # "ok_unread"

\* ------------------------------------- the two calculate_fast_hash
MaxBlocks == 4        \* blocks in a file that is fingerprinted

\* files_report.calculate_fast_hash without the modification time.
report_hash_without_mtime(f) ==
    IF ~f.exists \/ ~f.readable THEN ErrorHash
    ELSE LET n == Len(f.content)
             head == SubSeq(f.content, 1, Min(SAMPLE, n))
             tail == IF n > 2 * SAMPLE
                     THEN SubSeq(f.content, n - SAMPLE + 1, n)
                     ELSE <<>>
         IN  [kind |-> "digest", sample |-> head \o tail, size |-> n, mtime |-> 0]

\* files_report.calculate_fast_hash, the function the manifest is written with.
report_calculate_fast_hash(f) ==
    IF ~f.exists \/ ~f.readable THEN ErrorHash
    ELSE LET n == Len(f.content)
             head == SubSeq(f.content, 1, Min(SAMPLE, n))
             tail == IF n > 2 * SAMPLE
                     THEN SubSeq(f.content, n - SAMPLE + 1, n)
                     ELSE <<>>
         IN  [kind |-> "digest", sample |-> head \o tail,
              size |-> n, mtime |-> f.mtime]

\* No session: nothing is configured and the check button is never pressed.
NoSession ==
    /\ test_mode = TRUE
    /\ manifest_file = [kind |-> "unreadable", files |-> <<>>]
    /\ src = [p \in Paths |-> Absent]
    /\ old = [p \in Paths |-> Absent]
    /\ SessionIdle
    /\ last_plan = NoPlan
    /\ lookup = NoLookup
    /\ twin = NoTwin

Blocks == {1, 2}
Contents == UNION {[1..n -> Blocks] : n \in 0..MaxBlocks}
HashedFiles ==
    {Absent} \cup {File(c, t) : c \in Contents, t \in Times}
             \cup {Locked(File(c, t)) : c \in Contents, t \in Times}

InitHash ==
    /\ NoSession
    /\ report = NoReport
    /\ hashed \in {[pc |-> "given", file |-> f, main |-> None, report |-> None,
                     at |-> 0] : f \in HashedFiles}

\* Neither function touches anything but its result.
HashFrame ==
    UNCHANGED <<test_mode, manifest_file, src, old, last_plan, report, lookup,
                twin, dst, pc,
                check_state, queue_state, status_text, total_status_text>>

\* The scanning tool fingerprints the file for the manifest.
ScanHash ==
    /\ hashed.pc = "given"
    /\ hashed' = [hashed EXCEPT !.pc = "scanned",
                                !.report = report_calculate_fast_hash(hashed.file)]
    /\ HashFrame

\* The file is modified in place: block at changes, size and modification
\* time stay.
ChangeBlock ==
    /\ hashed.pc = "scanned"
    /\ hashed.file.exists
    /\ \E i \in 1..Len(hashed.file.content), b \in Blocks :
          /\ b # hashed.file.content[i]
          /\ hashed' = [hashed EXCEPT !.pc = "changed", !.at = i,
                                      !.file.content[i] = b]
    /\ HashFrame

\* The launcher fingerprints the file, changed or not.
LauncherHash ==
    /\ hashed.pc \in {"scanned", "changed"}
    /\ hashed' = [hashed EXCEPT !.pc = IF hashed.pc = "scanned" THEN "same" ELSE "differs",
                                !.main = calculate_fast_hash(hashed.file)]
    /\ HashFrame

NextHash ==
    \/ ScanHash
    \/ ChangeBlock
    \/ LauncherHash

SpecHash == InitHash /\ [][NextHash]_vars

\* Both fingerprints of the file were computed.
Hashed == hashed.pc \in {"same", "differs"} /\ hashed.main.kind = "digest"

\* C14 as stated: a file of at most 2 * SAMPLE blocks is fed to the hasher
\* whole, exactly once, so that a change of any block under the same size
\* and modification time changes the fingerprint; of a larger file exactly
\* the first and the last SAMPLE blocks are fed.
C14_SmallFileHashedWhole ==
    Hashed =>
        LET c == hashed.file.content
            n == Len(c)
        IN  /\ n <= 2 * SAMPLE => hashed.main.sample = c
            /\ n > 2 * SAMPLE =>
                  hashed.main.sample =
                      SubSeq(c, 1, SAMPLE) \o SubSeq(c, n - SAMPLE + 1, n)
            /\ (hashed.pc = "differs" /\ n <= 2 * SAMPLE) =>
                  hashed.main # hashed.report

\* C14 amended: whole up to SAMPLE blocks; the first SAMPLE blocks alone
\* from there up to 2 * SAMPLE blocks; the first and the last SAMPLE blocks
\* above, each with size and modification time.  A change of one block is
\* seen exactly when the block is among those fed.
C14_SampleBySize ==
    Hashed =>
        LET c == hashed.file.content
            n == Len(c)
            fed == IF n <= SAMPLE THEN c
                   ELSE IF n <= 2 * SAMPLE THEN SubSeq(c, 1, SAMPLE)
                   ELSE SubSeq(c, 1, SAMPLE) \o SubSeq(c, n - SAMPLE + 1, n)
        IN  /\ hashed.main.sample = fed
            /\ hashed.main.size = n
            /\ hashed.main.mtime = hashed.file.mtime
            /\ hashed.pc = "differs" =>
                  ((hashed.main # hashed.report)
                      <=> (hashed.at <= SAMPLE
                             \/ (n > 2 * SAMPLE /\ hashed.at > n - SAMPLE)))

\* A file of 2 * SAMPLE blocks whose last block was changed keeps its
\* fingerprint.
C14_Witness ==
    /\ Hashed /\ hashed.pc = "differs"
    /\ Len(hashed.file.content) = 2 * SAMPLE
    /\ hashed.at = 2 * SAMPLE
    /\ hashed.main = hashed.report

\* C19: for every file, missing and unreadable ones included, the function
\* of files_report.py and the function of main.py return the same
\* fingerprint, so that a file left as it was scanned matches its record.
C19_SameFingerprintFunction ==
    hashed.pc = "same" => hashed.main = hashed.report

\* A file with an unsampled middle and a later modification time went
\* through both functions.
C19_Witness ==
    /\ hashed.pc = "same"
    /\ hashed.report.kind = "digest"
    /\ Len(hashed.file.content) > 2 * SAMPLE
    /\ hashed.file.mtime = 1

\* The tasks that were committed.
Committed == {k \in 1..Len(results) : results[k] = "ok"}

\* C15: when every planned file has its source in place, with the
\* fingerprint of its record, and no transfer met an I/O error, the session
\* ends with every planned file committed at its destination, and the count
\* it reports as completed is the count of committed files, none failed.
C15_ReportCountsCommitted ==
    ( /\ LocalCopy /\ SessionEnded
      /\ \A k \in 1..Len(results) :
            /\ results[k] \in {"ok", "hash_error"}
            /\ calculate_fast_hash(src[TaskPath(k)]) = TaskRecord(k).hash )
    =>  /\ \A k \in 1..Len(results) :
              calculate_fast_hash(dst[TaskPath(k)]) = TaskRecord(k).hash
        /\ files_requiring_download = Cardinality(Committed)
        /\ Len(results) - Cardinality(Committed) = 0

\* ------------------------------------------------ stopping a session
\* close_window: the one way the page offers to stop a session under way.
\* The process ends where it stands; no handler of the session runs.
CloseWindow ==
    /\ pc \in {"checking", "queue", "copying", "streaming", "verify"}
    /\ pc' = "closed"
    /\ UNCHANGED <<env, dst, check_state, queue_state, status_text,
                   total_status_text>>

NextCancel ==
    \/ Next
    \/ CloseWindow

SpecCancel == Init /\ [][NextCancel]_vars

\* A task was popped and has not left the loop body.
InFlight ==
    /\ current_download # <<>>
    /\ Len(results) < Len(files_to_download) - Len(download_queue)

\* C16: a session that is stopped while a task is in flight ends as
\* cancelled, the file of that task is not left behind at its destination,
\* and the files committed before stay.
C16_CancelIsClean ==
    (LocalCopy /\ pc = "closed" /\ InFlight) =>
        /\ total_status_text = "cancelled"
        /\ dst[Dest] = prev_dest \/ ~dst[Dest].exists
        /\ \A k \in 1..Len(results) :
              (results[k] = "ok" /\ TaskPath(k) # Dest) => dst[TaskPath(k)].exists

\* ------------------------------ files_report.generate_directory_report
MaxDir == 2           \* files that os.walk finds in the directory

\* File names; the last one holds a lone surrogate, which
\* relative_path.encode('utf-8') and json.dump refuse.
Names == {"a.dat", "b.dat", "\\udc80.dat"}
Encodable(path) == \A k \in 1..Len(path) : path[k] # "\\udc80.dat"

\* What os.walk yields for one file: root is "" for the directory itself,
\* stat tells whether os.path.getsize succeeds.
WalkEntries ==
    {[root |-> r, name |-> n, stat |-> s, file |-> f] :
        r \in {"", "sub"}, n \in Names, s \in BOOLEAN,
        f \in {File(Data(1), 0), File(Data(2), 0), Locked(File(Data(1), 0))}}

\* The directory itself is walked before its subdirectories, and no two
\* files share root and name.
Walks ==
    {w \in UNION {[1..n -> WalkEntries] : n \in 0..MaxDir} :
        \A i, j \in 1..Len(w) :
            i < j => /\ ~(w[i].root = "sub" /\ w[j].root = "")
                     /\ ~(w[i].root = w[j].root /\ w[i].name = w[j].name)}

\* os.path.relpath(file_path, directory)
relative_path(e) == IF e.root = "" THEN <<e.name>> ELSE <<e.root, e.name>>

\* file if root == directory else relative_path
display_path(e) == IF e.root = "" THEN <<e.name>> ELSE relative_path(e)

\* overall_hasher.hexdigest() over what was fed, and the string "".
Digest(fed) == [kind |-> "digest", fed |-> fed]
EmptyString == [kind |-> "empty", fed |-> <<>>]

InitReport ==
    /\ NoSession
    /\ hashed = NoHash
    /\ report \in {[pc |-> "start", dir |-> w, i |-> 0, files |-> <<>>,
                    processed_files |-> 0, total_size |-> 0, overall |-> <<>>,
                    statistics |-> [total_files |-> 0, total_size |-> 0,
                                    overall_hash |-> EmptyString]] :
                      w \in Walks}

ReportFrame ==
    UNCHANGED <<test_mode, manifest_file, src, old, last_plan, hashed, lookup,
                twin, dst, pc,
                check_state, queue_state, status_text, total_status_text>>

\* total_files == 0: nothing to process, no report is written.
ReportStart ==
    /\ report.pc = "start"
    /\ report' = [report EXCEPT !.pc = IF Len(report.dir) = 0 THEN "returned"
                                       ELSE "walk"]
    /\ ReportFrame

\* The loop body with the counters moved before the test of the hash.
scan_counting_all(rep, e) ==
    IF ~e.stat THEN rep
    ELSE LET file_hash == report_calculate_fast_hash(e.file)
             counted == [rep EXCEPT !.total_size = @ + Len(e.file.content),
                                    !.processed_files = @ + 1]
         IN  IF file_hash = ErrorHash THEN counted
             ELSE [counted EXCEPT
                     !.files = Append(@, [path |-> display_path(e),
                                          size |-> Len(e.file.content),
                                          hash |-> file_hash,
                                          modified |-> e.file.mtime]),
                     !.overall = @ \o <<[hash |-> file_hash],
                                        [path |-> relative_path(e)]>>]

\* The body of the loop for one file; an exception leaves the try where it
\* is raised.
scan(rep, e) ==
    IF ~e.stat THEN rep                        \* os.path.getsize raises
    ELSE LET file_size == Len(e.file.content)
             file_hash == report_calculate_fast_hash(e.file)
         IN  IF file_hash = ErrorHash THEN rep
             ELSE LET appended ==
                        [rep EXCEPT !.files =
                            Append(@, [path |-> display_path(e),
                                       size |-> file_size,
                                       hash |-> file_hash,
                                       modified |-> e.file.mtime])]
                  IN  IF ~Encodable(relative_path(e))
                      THEN \* relative_path.encode raises after the first update
                           [appended EXCEPT !.overall =
                               Append(@, [hash |-> file_hash])]
                      ELSE [appended EXCEPT
                              !.overall = @ \o <<[hash |-> file_hash],
                                                 [path |-> relative_path(e)]>>,
                              !.total_size = @ + file_size,
                              !.processed_files = @ + 1]

ReportFile ==
    /\ report.pc = "walk"
    /\ report.i < Len(report.dir)
    /\ report' = [scan(report, report.dir[report.i + 1]) EXCEPT !.i = report.i + 1]
    /\ ReportFrame

\* The statistics, then json.dump into a file opened with encoding utf-8.
ReportFinish ==
    /\ report.pc = "walk"
    /\ report.i = Len(report.dir)
    /\ report' = [report EXCEPT
          !.statistics = [total_files |-> report.processed_files,
                          total_size |-> report.total_size,
                          overall_hash |-> IF report.processed_files > 0
                                           THEN Digest(report.overall)
                                           ELSE EmptyString],
          !.pc = IF \A k \in 1..Len(report.files) : Encodable(report.files[k].path)
                 THEN "saved" ELSE "dump_failed"]
    /\ ReportFrame

NextReport ==
    \/ ReportStart
    \/ ReportFile
    \/ ReportFinish

SpecReport == InitReport /\ [][NextReport]_vars

RECURSIVE SizesOf(_)
SizesOf(fs) == IF fs = <<>> THEN 0 ELSE Head(fs).size + SizesOf(Tail(fs))

RECURSIVE FedBy(_)
FedBy(fs) ==
    IF fs = <<>> THEN <<>>
    ELSE <<[hash |-> Head(fs).hash], [path |-> Head(fs).path]>> \o FedBy(Tail(fs))

\* The walked files whose size and fingerprint can be taken, in walk order.
RECURSIVE Recordable(_)
Recordable(w) ==
    IF w = <<>> THEN <<>>
    ELSE (IF Head(w).stat /\ Head(w).file.readable THEN <<Head(w)>> ELSE <<>>)
         \o Recordable(Tail(w))

\* The counters and the records of a written manifest agree, and the
\* records are those of the files that could be sized and fingerprinted.
ReportConsistent ==
    /\ report.statistics.total_files = Len(report.files)
    /\ report.statistics.total_size = SizesOf(report.files)
    /\ Len(report.files) = Len(Recordable(report.dir))
    /\ \A k \in 1..Len(report.files) :
          /\ report.files[k].path = relative_path(Recordable(report.dir)[k])
          /\ report.files[k].hash # ErrorHash
          /\ report.files[k].size = Len(Recordable(report.dir)[k].file.content)

\* C17 as stated: in a written manifest total_files is the number of
\* records, total_size the sum of their sizes, overall_hash the digest over
\* the fingerprints and paths of the records in order, and a file that
\* failed is in none of them.
C17_DerivedFieldsConsistent ==
    report.pc = "saved" =>
        /\ ReportConsistent
        /\ report.statistics.overall_hash = Digest(FedBy(report.files))

\* C17 amended: as stated, except that overall_hash is the empty string,
\* not a digest, when no file was recorded.
C17_DerivedFieldsOrEmpty ==
    report.pc = "saved" =>
        /\ ReportConsistent
        /\ report.statistics.overall_hash =
              IF report.files = <<>> THEN EmptyString
              ELSE Digest(FedBy(report.files))

\* A manifest was written for a directory with a file that failed before a
\* file in a subdirectory that was recorded.
C17_Witness ==
    /\ report.pc = "saved"
    /\ Len(report.dir) = 2
    /\ ~report.dir[1].stat \/ ~report.dir[1].file.readable
    /\ Len(report.files) = 1
    /\ report.files[1].path = <<"sub", "b.dat">>

\* C18: the planned files are fetched one at a time, in plan order: the
\* task in flight is the plan's entry after those that have reached their
\* end, and between two tasks the last one taken is the last one ended.
C18_SequentialInPlanOrder ==
    /\ pc \in {"copying", "streaming", "verify"} =>
          /\ Len(results) < Len(files_to_download)
          /\ current_download = add_download(files_to_download[Len(results) + 1])
    /\ (pc = "queue" /\ results # <<>>) =>
          current_download = add_download(files_to_download[Len(results)])
    /\ (pc = "queue" /\ results = <<>>) => current_download = <<>>
    /\ Len(results) <= Len(files_to_download)

\* The second of two different planned files is in flight, the first has
\* reached its end.
C18_Witness ==
    /\ pc = "copying"
    /\ Len(files_to_download) = 2
    /\ Len(results) = 1
    /\ files_to_download[1].path # files_to_download[2].path
    /\ Dest = files_to_download[2].path

\* C20: check_files only reads: as long as no task has been taken from the
\* queue, the download folder is what it was before the check, whatever the
\* check found and however it ended.
C20_CheckIsReadOnly ==
    ( \/ pc \in {"checking", "crashed"}
      \/ pc = "queue" /\ current_download = <<>>
      \/ pc = "done" /\ total_status_text = "up_to_date" )
    => dst = old

\* The check has looked at two files, one that differs from its record and
\* one that matches.
C20_Witness ==
    /\ pc = "checking"
    /\ processed_files = 2
    /\ Len(files_to_download) = 1
    /\ dst["a.dat"].exists /\ dst["b.dat"].exists
    /\ dst = old

\* --------------------------- add_download and the lookup of the hash
\* A path string of the manifest: its names and what separates them.
PathStrings ==
    {[parts |-> <<"a.dat">>, sep |-> ""],
     [parts |-> <<"sub", "b.dat">>, sep |-> "/"],
     [parts |-> <<"sub", "b.dat">>, sep |-> "\\"]}

\* str(Path(s)): pathlib on Windows takes both separators and prints the
\* backslash; elsewhere the backslash is part of a name and the string
\* comes back as it is.
str_path(platform, s) ==
    IF platform = "nt" /\ Len(s.parts) > 1 THEN [s EXCEPT !.sep = "\\"] ELSE s

\* destination = str(Path(self.download_folder) / file_info["path"])
destination_of(platform, r) ==
    [folder |-> "download_folder", rel |-> str_path(platform, r.path)]

\* str(dest_path.relative_to(self.download_folder))
relative_to_folder(platform, d) == str_path(platform, d.rel)

\* next((f["hash"] for f in files if f["path"] == rel), None)
RECURSIVE next_hash(_, _)
next_hash(fsq, rel) ==
    IF fsq = <<>> THEN "None"
    ELSE IF Head(fsq).path = rel THEN Head(fsq).hash
    ELSE next_hash(Tail(fsq), rel)

LookupRecords == {[path |-> s, hash |-> h] : s \in PathStrings, h \in {"h1", "h2"}}

InitLookup ==
    /\ test_mode = TRUE
    /\ manifest_file = [kind |-> "unreadable", files |-> <<>>]
    /\ src = [p \in Paths |-> Absent]
    /\ old = [p \in Paths |-> Absent]
    /\ SessionIdle
    /\ last_plan = NoPlan
    /\ hashed = NoHash
    /\ report = NoReport
    /\ twin = NoTwin
    /\ \E n \in 1..MaxManifest :
          lookup \in {[pc |-> "planned", platform |-> pf, files |-> fs, k |-> k,
                       destination |-> [folder |-> "",
                                        rel |-> [parts |-> <<>>, sep |-> ""]],
                       expected |-> "None"] :
                         pf \in {"nt", "posix"}, fs \in [1..n -> LookupRecords],
                         k \in 1..n}

LookupFrame ==
    UNCHANGED <<test_mode, manifest_file, src, old, last_plan, hashed, report,
                twin, dst, pc, check_state, queue_state, status_text,
                total_status_text>>

\* Record k of the manifest is queued.
QueueRecord ==
    /\ lookup.pc = "planned"
    /\ lookup' = [lookup EXCEPT
          !.pc = "queued",
          !.destination = destination_of(lookup.platform, lookup.files[lookup.k])]
    /\ LookupFrame

\* The hash the transferred file is compared with.
LookupHash ==
    /\ lookup.pc = "queued"
    /\ lookup' = [lookup EXCEPT
          !.pc = "looked",
          !.expected = next_hash(lookup.files,
                          relative_to_folder(lookup.platform, lookup.destination))]
    /\ LookupFrame

NextLookup ==
    \/ QueueRecord
    \/ LookupHash

SpecLookup == InitLookup /\ [][NextLookup]_vars

\* C21: the hash a transferred file is compared with is the hash of the
\* record the file was queued for, whatever separators the record's path
\* has and whatever other records name the same path.
C21_LookupFindsOwnRecord ==
    lookup.pc = "looked" => lookup.expected = lookup.files[lookup.k].hash

\* How a task ends that opened its destination for writing and failed.
WroteAndFailed == {"copy_error", "stream_error", "hash_error", "unreadable"}

\* C22: when a task that wrote to its destination has failed, in either
\* mode, nothing is left at the destination by the time the loop comes
\* back for the next queued file.
C22_FailedAttemptLeavesNothing ==
    ( /\ ValidManifest
      /\ pc = "queue" /\ results # <<>>
      /\ Last(results) \in WroteAndFailed )
    => ~dst[Dest].exists

\* The sum of the sizes the records of a plan carry, 0 for a record
\* without one.
RECURSIVE PlanSize(_)
PlanSize(plan) ==
    IF plan = <<>> THEN 0
    ELSE (IF Head(plan).hasSize THEN Head(plan).size ELSE 0) + PlanSize(Tail(plan))

\* C25: after every iteration of the loop of check_files the two counters
\* of the plan are its length and the sum of its records' sizes,
\* processed_files is at most total_files, and the two are equal once
\* check_files has returned a plan.
C25_CountersMatchPlan ==
    /\ files_requiring_download = Len(files_to_download)
    /\ size_requiring_download = PlanSize(files_to_download)
    /\ processed_files <= total_files
    /\ pc \notin {"idle", "checking", "crashed"} => processed_files = total_files

\* Two records are planned, one of them without a size.
C25_Witness ==
    /\ pc = "checking"
    /\ processed_files = 2
    /\ Len(files_to_download) = 2
    /\ \E i \in 1..2 : ~files_to_download[i].hasSize
    /\ size_requiring_download > 0

\* ------------------------------------------------------- termination
\* Manifests as the scanning tool writes them.
ScannedManifests ==
    {[kind |-> "ok", files |-> fs] :
        fs \in UNION {[1..n -> {Scanned(p, File(Data(1), 0)) : p \in Paths}] :
                         n \in 1..MaxManifest}}

InitLive == Start(ScannedManifests, {Absent, File(Data(1), 0)})

\* The event loop resumes a coroutine whose await has completed: a timer
\* of asyncio.sleep expires, a read returns, and a stalled response ends
\* in aiohttp's timeout, which is the broken connection of StreamChunk.
SpecLive == InitLive /\ [][Next]_vars /\ WF_vars(Next)

\* A step inside process_queue leaves the queue alone or, at the start of
\* an iteration, takes its head off.
QueueOnlyShrinks ==
    pc \in {"queue", "copying", "streaming", "verify"} =>
        \/ download_queue' = download_queue
        \/ /\ pc = "queue"
           /\ download_queue # <<>>
           /\ download_queue' = Tail(download_queue)

\* C24: inside process_queue the queue changes only by losing its head at
\* the start of an iteration, and a loop that has been entered ends with
\* the queue empty and current_download reset.
C24_ProcessQueueTerminates ==
    /\ [][QueueOnlyShrinks]_vars
    /\ (pc = "queue") ~>
           (pc = "done" /\ download_queue = <<>> /\ current_download = <<>>)

\* The loop has ended after two tasks that ended differently.
C24_Witness ==
    /\ pc = "done" /\ download_queue = <<>> /\ current_download = <<>>
    /\ Len(results) = 2
    /\ results[1] # results[2]
    /\ results[1] \in Failures

\* ------------------------- start_file_check triggered a second time
\* Two invocations of the handler, each with a Downloader of its own, over
\* a manifest with one record for one file of the download folder.  Each
\* step runs an invocation from one await to the next.
SourceTwin == File(Data(2), 0)
RecordTwin == Scanned("a.dat", SourceTwin)

\* dst.write(chunk) through a handle that stands at offset pos; blocks that
\* no handle has written read as 0.
WriteAt(f, pos, chunk, t) ==
    LET c == f.content
        n == IF Len(c) > pos + 1 THEN Len(c) ELSE pos + 1
    IN  File([k \in 1..n |-> IF k = pos + 1 THEN chunk[1]
                             ELSE IF k <= Len(c) THEN c[k] ELSE 0], t)

InitTwin ==
    /\ test_mode = TRUE
    /\ manifest_file = [kind |-> "ok", files |-> <<RecordTwin>>]
    /\ src = [p \in Paths |-> IF p = "a.dat" THEN SourceTwin ELSE Absent]
    /\ old = [p \in Paths |-> Absent]
    /\ SessionIdle
    /\ last_plan = NoPlan
    /\ hashed = NoHash
    /\ report = NoReport
    /\ lookup = NoLookup
    /\ twin \in {[platform |-> pf, file |-> f,
                  pc |-> <<"idle", "idle">>, planned |-> <<FALSE, FALSE>>,
                  pos |-> <<0, 0>>, orphan |-> <<FALSE, FALSE>>,
                  outcome |-> <<"", "">>] :
                    pf \in {"nt", "posix"},
                    f \in {Absent, File(Data(1), 0), SourceTwin}}

TwinFrame ==
    UNCHANGED <<test_mode, manifest_file, src, old, last_plan, hashed, report,
                lookup, dst, pc, check_state, queue_state, status_text,
                total_status_text>>

Other(i) == 3 - i

\* The button is pressed: check_files loads the manifest, looks at the
\* file and waits in asyncio.sleep(0).
Click ==
    /\ \E i \in 1..2 :
          /\ twin.pc[i] = "idle"
          /\ twin' = [twin EXCEPT
                !.pc[i] = "checked",
                !.planned[i] = NeedsDownload(RecordTwin, [p \in Paths |-> twin.file])]
    /\ TwinFrame

\* check_files returns.  With an empty plan the handler ends; otherwise
\* process_queue opens the destination 'wb', writes the first chunk and
\* waits in asyncio.sleep(0.01).
Resume ==
    /\ \E i \in 1..2 :
          /\ twin.pc[i] = "checked"
          /\ IF ~twin.planned[i]
             THEN twin' = [twin EXCEPT !.pc[i] = "done", !.outcome[i] = "up_to_date"]
             ELSE (\E t \in Times :
                    twin' = [twin EXCEPT
                       !.pc[i] = "copying",
                       !.pos[i] = chunk_size,
                       !.orphan[i] = FALSE,
                       !.file = WriteAt(File(<<>>, t), 0,
                                        ReadChunk(SourceTwin.content, 0, chunk_size), t)])
    /\ TwinFrame

\* The copy loop goes on after its sleep: the next chunk is written, or
\* the source is at its end, the file at the destination path is
\* fingerprinted and, on a mismatch, unlinked.  Unlinking a file that the
\* other invocation has open fails on Windows and detaches its handle
\* elsewhere.
CopyOn ==
    /\ \E i \in 1..2 :
          /\ twin.pc[i] = "copying"
          /\ LET chunk == ReadChunk(SourceTwin.content, twin.pos[i], chunk_size)
                 j == Other(i)
                 open_j == twin.pc[j] = "copying" /\ ~twin.orphan[j]
             IN  IF chunk # <<>>
                 THEN (\E t \in Times :
                        twin' = [twin EXCEPT
                           !.pos[i] = @ + Len(chunk),
                           !.file = IF twin.orphan[i] THEN @
                                    ELSE WriteAt(@, twin.pos[i], chunk, t)])
                 ELSE IF calculate_fast_hash(twin.file) = RecordTwin.hash
                 THEN twin' = [twin EXCEPT !.pc[i] = "done", !.outcome[i] = "ok"]
                 ELSE IF ~twin.file.exists
                 THEN twin' = [twin EXCEPT !.pc[i] = "done",
                                           !.outcome[i] = "hash_error"]
                 ELSE IF open_j /\ twin.platform = "nt"
                 THEN twin' = [twin EXCEPT !.pc[i] = "done",
                                           !.outcome[i] = "critical"]
                 ELSE twin' = [twin EXCEPT !.pc[i] = "done",
                                           !.outcome[i] = "hash_error",
                                           !.file = Absent,
                                           !.orphan[j] = open_j]
    /\ TwinFrame

NextTwin ==
    \/ Click
    \/ Resume
    \/ CopyOn

SpecTwin == InitTwin /\ [][NextTwin]_vars

\* C23: two invocations of start_file_check are never both between opening
\* the destination and the end of its verification.
C23_OneSessionPerDestination ==
    ~(twin.pc[1] = "copying" /\ twin.pc[2] = "copying")

====
